---- MODULE Spec2Model ----
(***************************************************************************)
(* Model of the user REST API of fastapi-mongodb: the User schema and its  *)
(* validators (schema/user.py) and the four request handlers of app.py     *)
(* (create, list, search, delete) over the "users" collection.             *)
(*                                                                         *)
(* Strings of the program are sequences of one-character strings, so that  *)
(* stripping, length limits, the username pattern and the e-mail           *)
(* normalisation are computed and not assumed.  Messages the program only  *)
(* passes along (exception texts, HTTP details) are TLA+ strings.          *)
(***************************************************************************)
EXTENDS Integers, Sequences, FiniteSets, TLC

VARIABLES
    users,      \* the "users" collection: documents in natural order
    nextId,     \* the identifier insert_one assigns next
    before,     \* the collection as the last request found it
    req,        \* the last request, with what the store did to it
    resp,       \* the response to the last request
    calls,      \* the data-store calls the last request made, in order
    created,    \* the body of the last successful create not followed by a delete
    inflight    \* the requests of concurrent workers, each between two store calls

vars == <<users, nextId, before, req, resp, calls, created, inflight>>

-----------------------------------------------------------------------------
(* Bounds of the model *)

MaxInserts == 2

(* the requests that workers handle concurrently *)
MaxRequests == 3

-----------------------------------------------------------------------------
(* Characters and strings *)

Lower == {"a","b","c","d","e","f","g","h","i","j","k","l","m",
          "n","o","p","q","r","s","t","u","v","w","x","y","z"}

Upper == {"A","B","C","D","E","F","G","H","I","J","K","L","M",
          "N","O","P","Q","R","S","T","U","V","W","X","Y","Z"}

Digit == {"0","1","2","3","4","5","6","7","8","9"}

Whitespace == {" "}

Rep(c, n) == [i \in 1..n |-> c]

RECURSIVE LStrip(_)
LStrip(s) == IF s # <<>> /\ Head(s) \in Whitespace THEN LStrip(Tail(s)) ELSE s

RECURSIVE RStrip(_)
RStrip(s) ==
    IF s # <<>> /\ s[Len(s)] \in Whitespace
    THEN RStrip(SubSeq(s, 1, Len(s) - 1))
    ELSE s

(* str_strip_whitespace=True: every str field of User is stripped first *)
Strip(s) == RStrip(LStrip(s))

ToLower(c) ==
    CASE c = "A" -> "a" [] c = "B" -> "b" [] c = "C" -> "c" [] c = "D" -> "d"
      [] c = "E" -> "e" [] c = "F" -> "f" [] c = "G" -> "g" [] c = "H" -> "h"
      [] c = "I" -> "i" [] c = "J" -> "j" [] c = "K" -> "k" [] c = "L" -> "l"
      [] c = "M" -> "m" [] c = "N" -> "n" [] c = "O" -> "o" [] c = "P" -> "p"
      [] c = "Q" -> "q" [] c = "R" -> "r" [] c = "S" -> "s" [] c = "T" -> "t"
      [] c = "U" -> "u" [] c = "V" -> "v" [] c = "W" -> "w" [] c = "X" -> "x"
      [] c = "Y" -> "y" [] c = "Z" -> "z" [] OTHER -> c

-----------------------------------------------------------------------------
(* UserValidation: constants and rules *)

USERNAME_MIN_LENGTH == 3
USERNAME_MAX_LENGTH == 50
FULLNAME_MAX_LENGTH == 100

ANONYMOUS_USERNAME == <<"a","n","o","n","y","m","o","u","s">>

ALLOWED_ROLES == { <<"a","d","m","i","n">>, <<"u","s","e","r">>,
                   <<"e","d","i","t","o","r">>, <<"v","i","e","w","e","r">> }

(* USERNAME_PATTERN ^[a-zA-Z0-9_]+$ applied with re.match *)
UsernameChars == Lower \cup Upper \cup Digit \cup {"_"}

USERNAME_PATTERN(username) ==
    /\ username # <<>>
    /\ \A i \in 1..Len(username) : username[i] \in UsernameChars

validate_username_format(username) == USERNAME_PATTERN(username)

Range(s) == { s[i] : i \in 1..Len(s) }

validate_roles(roles) == Range(roles) \ ALLOWED_ROLES = {}

-----------------------------------------------------------------------------
(* EmailStr: the address grammar and its normalisation *)

AtPositions(s) == { i \in 1..Len(s) : s[i] = "@" }

LocalChars == Lower \cup Upper \cup Digit \cup {".", "_", "-", "+"}
DomainChars == Lower \cup Upper \cup Digit \cup {".", "-"}

EmailValid(s) ==
    /\ Cardinality(AtPositions(s)) = 1
    /\ LET at == CHOOSE i \in AtPositions(s) : TRUE
           local == SubSeq(s, 1, at - 1)
           domain == SubSeq(s, at + 1, Len(s))
       IN  /\ local # <<>>
           /\ \A i \in 1..Len(local) : local[i] \in LocalChars
           /\ Len(domain) >= 3
           /\ \A i \in 1..Len(domain) : domain[i] \in DomainChars
           /\ \E i \in 2..(Len(domain) - 1) : domain[i] = "."
           /\ domain[1] # "." /\ domain[Len(domain)] # "."
           /\ \A i \in 1..(Len(domain) - 1) : ~(domain[i] = "." /\ domain[i+1] = ".")

(* the validated value is the normalised address: the domain is lower-cased *)
EmailNormalize(s) ==
    LET at == CHOOSE i \in AtPositions(s) : TRUE
    IN  [i \in 1..Len(s) |-> IF i > at THEN ToLower(s[i]) ELSE s[i]]

-----------------------------------------------------------------------------
(* class User: a request body is a JSON object, a record whose domain is   *)
(* the set of keys that were sent.  Errors are <<field, kind>> pairs, all  *)
(* field errors being collected; the model validator runs only when every  *)
(* field validated.                                                        *)

Has(body, key) == key \in DOMAIN body

(* the bug of a minimal username length that is off by one *)
UsernameErrorsOffByOne(body) ==
    IF ~Has(body, "username") THEN { <<"username", "missing">> }
    ELSE LET v == Strip(body.username)
         IN  IF Len(v) <= USERNAME_MIN_LENGTH THEN { <<"username", "string_too_short">> }
             ELSE IF Len(v) > USERNAME_MAX_LENGTH THEN { <<"username", "string_too_long">> }
             ELSE IF ~validate_username_format(v) THEN { <<"username", "value_error">> }
             ELSE {}

UsernameErrors(body) ==
    IF ~Has(body, "username") THEN { <<"username", "missing">> }
    ELSE LET v == Strip(body.username)
         IN  IF Len(v) < USERNAME_MIN_LENGTH THEN { <<"username", "string_too_short">> }
             ELSE IF Len(v) > USERNAME_MAX_LENGTH THEN { <<"username", "string_too_long">> }
             ELSE IF ~validate_username_format(v) THEN { <<"username", "value_error">> }
             ELSE {}

EmailErrors(body) ==
    IF ~Has(body, "email") THEN { <<"email", "missing">> }
    ELSE IF ~EmailValid(Strip(body.email)) THEN { <<"email", "value_error">> }
    ELSE {}

FullNameErrors(body) ==
    IF Has(body, "full_name") /\ Len(Strip(body.full_name)) > FULLNAME_MAX_LENGTH
    THEN { <<"full_name", "string_too_long">> }
    ELSE {}

StripAll(roles) == [i \in 1..Len(roles) |-> Strip(roles[i])]

RolesErrors(body) ==
    IF Has(body, "roles") /\ ~validate_roles(StripAll(body.roles))
    THEN { <<"roles", "value_error">> }
    ELSE {}

FieldErrors(body) ==
    UsernameErrors(body) \cup EmailErrors(body) \cup FullNameErrors(body)
        \cup RolesErrors(body)

(* the field values of the validated model *)
Fields(body) ==
    [ username  |-> Strip(body.username),
      email     |-> EmailNormalize(Strip(body.email)),
      full_name |-> IF Has(body, "full_name") THEN Strip(body.full_name) ELSE <<>>,
      is_active |-> IF Has(body, "is_active") THEN body.is_active ELSE TRUE,
      signup_ts |-> IF Has(body, "signup_ts") THEN body.signup_ts ELSE "None",
      roles     |-> IF Has(body, "roles") THEN StripAll(body.roles) ELSE <<>> ]

(* the bug of a model validator that accepts every user *)
no_name_requirements(user) == TRUE

validate_name_requirements(user) ==
    ~(user.full_name = <<>> /\ user.username = ANONYMOUS_USERNAME)

(* User.model_validate(body): the set of errors, empty when valid *)
UserErrors(body) ==
    IF FieldErrors(body) # {} THEN FieldErrors(body)
    ELSE IF ~validate_name_requirements(Fields(body)) THEN { <<"model", "value_error">> }
    ELSE {}

(* the bug of storing the request body as it was sent *)
dump_raw_body(body) ==
    [ username  |-> body.username,
      email     |-> body.email,
      full_name |-> IF Has(body, "full_name") THEN body.full_name ELSE <<>>,
      is_active |-> TRUE,
      signup_ts |-> "None",
      roles     |-> IF Has(body, "roles") THEN body.roles ELSE <<>> ]

(* user.model_dump(by_alias=True) *)
model_dump(body) == Fields(body)

-----------------------------------------------------------------------------
(* class UserResponse: the projection used by list and search *)

UserResponseErrors(doc) ==
    { <<k, "missing">> : k \in {"username", "email", "full_name", "roles"} \ DOMAIN doc }
        \cup (IF Has(doc, "email") /\ ~EmailValid(doc.email)
              THEN { <<"email", "value_error">> } ELSE {})

(* the bug of returning the stored document unprojected *)
WholeDocument(doc) == doc

UserResponse(doc) ==
    [ username  |-> doc.username,
      email     |-> EmailNormalize(doc.email),
      full_name |-> doc.full_name,
      roles     |-> doc.roles ]

-----------------------------------------------------------------------------
(* Exceptions and HTTP responses *)

HTTPException(status_code, detail) ==
    [kind |-> "HTTPException", status_code |-> status_code, detail |-> detail]

Exception(msg) == [kind |-> "Exception", msg |-> msg]

ValidationError(errors) == [kind |-> "ValidationError", errors |-> errors]

(* str(err): HTTPException prints as "<status>: <detail>", a plain         *)
(* exception as its message                                                *)
str(err) ==
    CASE err.kind = "HTTPException" -> ToString(err.status_code) \o ": " \o err.detail
      [] err.kind = "Exception" -> err.msg
      [] OTHER -> "validation error"

(* the response the framework sends for a raised HTTPException: the JSON   *)
(* body {"detail": ...}                                                    *)
Raise(err) == [status |-> err.status_code, detail |-> err.detail]

(* the framework's answer to a body that fails validation against User:    *)
(* 422 with the list of field errors                                       *)
RequestValidationError(errors) == [status |-> 422, errors |-> errors]

(* the responses of the handlers that return: the created user (201), the  *)
(* list of projections (200), the confirmation {"message": ...} (200)      *)
ReturnUser(fields) == [status |-> 201, user |-> fields]

ReturnList(list) == [status |-> 200, list |-> list]

ReturnMessage(message) == [status |-> 200, message |-> message]

(* the except clauses of the four handlers *)
create_user_except(err) ==
    IF err.kind = "ValidationError"
    THEN Raise(HTTPException(422, str(err)))
    ELSE Raise(HTTPException(500, str(err)))

(* the bug of answering with a fixed text *)
hide_the_cause(err) == Raise(HTTPException(500, "Internal Server Error"))

get_users_except(err) == Raise(HTTPException(500, str(err)))

(* the bug of a handler without the "except HTTPException" clause *)
wrap_every_exception(err) == Raise(HTTPException(500, str(err)))

get_user_except(err) ==
    IF err.kind = "HTTPException" THEN Raise(err)
    ELSE Raise(HTTPException(500, str(err)))

delete_user_except(err) ==
    IF err.kind = "HTTPException" THEN Raise(err)
    ELSE Raise(HTTPException(500, str(err)))

-----------------------------------------------------------------------------
(* The "users" collection: a sequence of documents in natural order.  A    *)
(* fault names the data-store call of the request that raises (at = 0:     *)
(* none) and the text of the exception.                                     *)

ErrMsgs == {"Database error", "Unexpected database error"}

NoFault == [at |-> 0, msg |-> ""]

Faults(n) == {NoFault} \cup { [at |-> i, msg |-> m] : i \in 1..n, m \in ErrMsgs }

Doc(id, f) ==
    [ _id |-> id, username |-> f.username, email |-> f.email,
      full_name |-> f.full_name, is_active |-> f.is_active,
      signup_ts |-> f.signup_ts, roles |-> f.roles ]

(* find(): every document, in natural order *)
find_all(coll) == coll

(* find({"email": email}) *)
find_by_email(coll, email) == SelectSeq(coll, LAMBDA d : d.email = email)

(* the bug of searching the e-mail field only *)
find_by_email_only(coll, search) == SelectSeq(coll, LAMBDA d : d.email = search)

(* find({"$or": [{"email": search}, {"username": search}]}) *)
find_by_email_or_username(coll, search) ==
    SelectSeq(coll, LAMBDA d : d.email = search \/ d.username = search)

(* find_one({"_id": id}): the documents with that identifier (none or one) *)
find_one(coll, id) == SelectSeq(coll, LAMBDA d : d._id = id)

(* positions of the documents with an e-mail address *)
Matching(coll, email) == { i \in 1..Len(coll) : coll[i].email = email }

Remove(coll, i) == SubSeq(coll, 1, i - 1) \o SubSeq(coll, i + 1, Len(coll))

(* the bug of removing every document that matches *)
delete_many(coll, email, victim) == SelectSeq(coll, LAMBDA d : d.email # email)

(* delete_one({"email": email}): removes one matching document, the one at *)
(* position victim, and nothing when no document matches                   *)
delete_one(coll, email, victim) ==
    IF victim \in Matching(coll, email) THEN Remove(coll, victim) ELSE coll

-----------------------------------------------------------------------------
(* The handlers of app.py.  Each yields the collection, the identifier     *)
(* counter, the response and the data-store calls made, in order.          *)

Outcome(coll, id, response, made) ==
    [users |-> coll, nextId |-> id, resp |-> response, calls |-> made]

CreateCalls == <<"get_collection", "insert_one", "get_collection", "find_one">>
ReadCalls   == <<"get_collection", "find">>
DeleteCalls == <<"get_collection", "find", "get_collection", "delete_one">>

(* POST /users/ : the framework validates the body against User before the *)
(* handler runs.  removed: another client of the store deletes the new     *)
(* document between insert_one and find_one.                               *)
create_user(coll, id, body, fault, removed) ==
    IF UserErrors(body) # {}
    THEN Outcome(coll, id, RequestValidationError(UserErrors(body)), <<>>)
    ELSE
    LET user_dict == model_dump(body)
        inserted  == Append(coll, Doc(id, user_dict))
        stored    == IF removed THEN coll ELSE inserted
        found     == find_one(stored, id)
    IN  IF fault.at \in {1, 2}
        THEN Outcome(coll, id, create_user_except(Exception(fault.msg)),
                     SubSeq(CreateCalls, 1, fault.at))
        ELSE IF fault.at \in {3, 4}
        THEN Outcome(stored, id + 1, create_user_except(Exception(fault.msg)),
                     SubSeq(CreateCalls, 1, fault.at))
        ELSE IF found = <<>>
        THEN Outcome(stored, id + 1,
                     create_user_except(HTTPException(500, "Failed to create user")),
                     CreateCalls)
        ELSE LET created_user == Head(found)
             IN  IF UserErrors(created_user) # {}
                 THEN Outcome(stored, id + 1,
                              create_user_except(ValidationError(UserErrors(created_user))),
                              CreateCalls)
                 ELSE Outcome(stored, id + 1, ReturnUser(Fields(created_user)),
                              CreateCalls)

(* the list comprehension [UserResponse.model_validate(user) for user in   *)
(* users]: the errors of the first document that fails, and the list       *)
ProjectionErrors(docs) ==
    LET bad == { i \in 1..Len(docs) : UserResponseErrors(docs[i]) # {} }
    IN  IF bad = {} THEN {}
        ELSE UserResponseErrors(docs[CHOOSE i \in bad : \A j \in bad : i <= j])

ProjectAll(docs) == [i \in 1..Len(docs) |-> UserResponse(docs[i])]

(* GET /users/ *)
get_users(coll, id, fault) ==
    LET users_found == find_all(coll)
    IN  IF fault.at # 0
        THEN Outcome(coll, id, get_users_except(Exception(fault.msg)),
                     SubSeq(ReadCalls, 1, fault.at))
        ELSE IF ProjectionErrors(users_found) # {}
        THEN Outcome(coll, id,
                     get_users_except(ValidationError(ProjectionErrors(users_found))),
                     ReadCalls)
        ELSE Outcome(coll, id, ReturnList(ProjectAll(users_found)), ReadCalls)

(* GET /users/{search} *)
get_user(coll, id, search, fault) ==
    LET users_found == find_by_email_or_username(coll, search)
    IN  IF fault.at # 0
        THEN Outcome(coll, id, get_user_except(Exception(fault.msg)),
                     SubSeq(ReadCalls, 1, fault.at))
        ELSE IF ProjectionErrors(users_found) # {}
        THEN Outcome(coll, id,
                     get_user_except(ValidationError(ProjectionErrors(users_found))),
                     ReadCalls)
        ELSE IF ProjectAll(users_found) = <<>>
        THEN Outcome(coll, id,
                     get_user_except(HTTPException(404, "No user found")),
                     ReadCalls)
        ELSE Outcome(coll, id, ReturnList(ProjectAll(users_found)), ReadCalls)

DeletedMessage(email) == <<"User with email ", email, " deleted successfully">>

(* DELETE /users/{email} : victim is the position of the one matching      *)
(* document delete_one removes                                             *)
delete_user(coll, id, email, fault, victim) ==
    LET user_list == find_by_email(coll, email)
    IN  IF fault.at \in {1, 2}
        THEN Outcome(coll, id, delete_user_except(Exception(fault.msg)),
                     SubSeq(DeleteCalls, 1, fault.at))
        ELSE IF user_list = <<>>
        THEN Outcome(coll, id,
                     delete_user_except(HTTPException(404, "No user found")),
                     ReadCalls)
        ELSE IF fault.at \in {3, 4}
        THEN Outcome(coll, id, delete_user_except(Exception(fault.msg)),
                     SubSeq(DeleteCalls, 1, fault.at))
        ELSE Outcome(delete_one(coll, email, victim), id,
                     ReturnMessage(DeletedMessage(email)),
                     DeleteCalls)

-----------------------------------------------------------------------------
(* Requests the clients send *)

abc     == <<"a","b","c">>
Al      == <<"A","l">>
admin   == <<"a","d","m","i","n">>
user    == <<"u","s","e","r">>
root    == <<"r","o","o","t">>
a_b_c   == <<"a","@","b",".","c">>
a_B_c   == <<"a","@","B",".","c">>
x_y_z   == <<"x","@","y",".","z">>
Pad(s)  == <<" ">> \o s \o <<" ">>

ValidBodies ==
    { [username |-> abc, email |-> a_b_c],
      [username |-> Pad(abc), email |-> Pad(a_B_c), full_name |-> <<" ">>, roles |-> <<>>],
      [username |-> Rep("u", USERNAME_MAX_LENGTH), email |-> a_b_c,
       full_name |-> Al, roles |-> <<admin>>],
      [username |-> ANONYMOUS_USERNAME, email |-> x_y_z,
       full_name |-> Pad(Rep("n", FULLNAME_MAX_LENGTH)), roles |-> <<user, admin>>] }

InvalidBodies ==
    { [email |-> a_b_c],
      [username |-> abc],
      [username |-> <<"a","b">>, email |-> a_b_c],
      [username |-> Pad(<<"a","b">>), email |-> a_b_c],
      [username |-> Rep("u", USERNAME_MAX_LENGTH + 1), email |-> a_b_c],
      [username |-> <<"a","-","c">>, email |-> a_b_c],
      [username |-> <<"a"," ","c">>, email |-> a_b_c],
      [username |-> abc, email |-> abc],
      [username |-> abc, email |-> <<"a","@","b">>],
      [username |-> abc, email |-> a_b_c, full_name |-> Rep("n", FULLNAME_MAX_LENGTH + 1)],
      [username |-> abc, email |-> a_b_c, roles |-> <<root>>],
      [username |-> abc, email |-> a_b_c, roles |-> <<admin, root>>],
      [username |-> ANONYMOUS_USERNAME, email |-> a_b_c],
      [username |-> ANONYMOUS_USERNAME, email |-> a_b_c, full_name |-> <<" ">>],
      [username |-> <<"a","b">>, email |-> abc, roles |-> <<root>>] }

Bodies == ValidBodies \cup InvalidBodies

SearchStrings ==
    { abc, Pad(abc), ANONYMOUS_USERNAME, Rep("u", USERNAME_MAX_LENGTH),
      a_b_c, a_B_c, x_y_z, root }

DeleteEmails == { a_b_c, a_B_c, x_y_z, abc }

NoBody == [none |-> TRUE]

-----------------------------------------------------------------------------
(* A request in the hands of a worker: what was asked, the next data-store *)
(* call of its handler (pc), what its calls returned so far (the assigned  *)
(* identifier, the length of user_list), the records its delete_one took   *)
(* out and its response.                                                   *)

Requests == 1..MaxRequests

Idle ==
    [ op |-> "none", pc |-> "idle", email |-> <<>>, body |-> NoBody,
      id |-> 0, found |-> 0, removed |-> 0, resp |-> [status |-> 0] ]

-----------------------------------------------------------------------------
(* The state machine: one action per request, handled to completion (the   *)
(* handlers are coroutines without an await, so one worker runs each of    *)
(* them without interleaving).                                             *)

Init ==
    /\ users = <<>>
    /\ nextId = 1
    /\ before = <<>>
    /\ req = [op |-> "none"]
    /\ resp = [status |-> 0]
    /\ calls = <<>>
    /\ created = NoBody
    /\ inflight = [r \in Requests |-> Idle]

Apply(out) ==
    /\ UNCHANGED inflight
    /\ before' = users
    /\ users' = out.users
    /\ nextId' = out.nextId
    /\ resp' = out.resp
    /\ calls' = out.calls

(* a fault can only strike a call the request makes *)
Strikes(fault, made) == fault.at <= Len(made)

CreateUser ==
    \E body \in Bodies, fault \in Faults(Len(CreateCalls)), removed \in BOOLEAN :
        LET out == create_user(users, nextId, body, fault, removed)
        IN  /\ nextId <= MaxInserts
            /\ removed => fault = NoFault
            /\ UserErrors(body) # {} => fault = NoFault /\ ~removed
            /\ Apply(out)
            /\ req' = [op |-> "create", body |-> body, fault |-> fault, removed |-> removed]
            /\ created' = IF out.resp.status = 201 THEN body ELSE created

GetUsers ==
    \E fault \in Faults(Len(ReadCalls)) :
        /\ Apply(get_users(users, nextId, fault))
        /\ req' = [op |-> "list", fault |-> fault]
        /\ UNCHANGED created

GetUser ==
    \E search \in SearchStrings, fault \in Faults(Len(ReadCalls)) :
        /\ Apply(get_user(users, nextId, search, fault))
        /\ req' = [op |-> "search", search |-> search, fault |-> fault]
        /\ UNCHANGED created

DeleteUser ==
    \E email \in DeleteEmails, fault \in Faults(Len(DeleteCalls)) :
        \E victim \in Matching(users, email) \cup {0} :
            LET out == delete_user(users, nextId, email, fault, victim)
            IN  /\ (victim = 0) = (Matching(users, email) = {})
                /\ Strikes(fault, delete_user(users, nextId, email, NoFault, victim).calls)
                /\ Apply(out)
                /\ req' = [op |-> "delete", email |-> email, fault |-> fault]
                /\ created' = IF out.users # users THEN NoBody ELSE created

Next == CreateUser \/ GetUsers \/ GetUser \/ DeleteUser

Spec == Init /\ [][Next]_vars

-----------------------------------------------------------------------------
(* Vocabulary of the properties *)

(* the data store answered every call of the request *)
StoreWorked == req.fault = NoFault

(* the public fields of a stored document, as stored *)
View(d) ==
    [username |-> d.username, email |-> d.email,
     full_name |-> d.full_name, roles |-> d.roles]

NotFound == [status |-> 404, detail |-> "No user found"]

Bijections(n, S) ==
    { f \in [1..n -> S] : \A i, j \in 1..n : i # j => f[i] # f[j] }

-----------------------------------------------------------------------------
(* C1 - delete by email: when at least one stored record has email e and   *)
(* the store answers, DELETE /users/{e} answers 200 with the message "User *)
(* with email e deleted successfully" and the collection is the one before *)
(* with exactly one record of email e taken out, every other record (also  *)
(* further records of email e) staying as it was.                          *)
C1_DeleteRemovesExactlyOne ==
    (req.op = "delete" /\ StoreWorked
        /\ \E i \in 1..Len(before) : before[i].email = req.email)
    => /\ resp = [status |-> 200,
                  message |-> <<"User with email ", req.email,
                                " deleted successfully">>]
       /\ \E i \in 1..Len(before) :
            /\ before[i].email = req.email
            /\ Len(users) = Len(before) - 1
            /\ \A k \in 1..Len(users) :
                 users[k] = IF k < i THEN before[k] ELSE before[k + 1]

(* a delete that left behind another record with the same email *)
C1_Witness ==
    /\ req.op = "delete" /\ StoreWorked /\ resp.status = 200
    /\ Len(before) = 2 /\ Len(users) = 1
    /\ users[1].email = req.email

(* C2 - search: when some stored record has email or username s and the    *)
(* store answers, GET /users/{s} answers 200 with exactly the public view  *)
(* of the matching records, none omitted and none added, and leaves the    *)
(* collection as it was.                                                   *)
C2_SearchReturnsExactlyMatches ==
    (req.op = "search" /\ StoreWorked
        /\ \E i \in 1..Len(before) :
             before[i].email = req.search \/ before[i].username = req.search)
    => LET hits == { i \in 1..Len(before) :
                       before[i].email = req.search \/ before[i].username = req.search }
       IN  /\ resp.status = 200
           /\ Len(resp.list) = Cardinality(hits)
           /\ \E f \in Bijections(Len(resp.list), hits) :
                \A k \in 1..Len(resp.list) : resp.list[k] = View(before[f[k]])
           /\ users = before

(* a search that returned one of two stored records *)
C2_Witness ==
    /\ req.op = "search" /\ StoreWorked /\ resp.status = 200
    /\ Len(before) = 2 /\ Len(resp.list) = 1
    /\ resp.list[1].username = req.search

(* C3 - not-found pass-through: when no stored record matches (search: by  *)
(* email or username; delete: by email) and the store answers, the handler *)
(* answers 404 with detail exactly "No user found", not a 500, and the     *)
(* collection is unchanged.                                                *)
C3_NotFoundPassesThrough ==
    /\ (req.op = "search" /\ StoreWorked
          /\ \A i \in 1..Len(before) :
               before[i].email # req.search /\ before[i].username # req.search)
       => resp = NotFound /\ users = before
    /\ (req.op = "delete" /\ StoreWorked
          /\ \A i \in 1..Len(before) : before[i].email # req.email)
       => resp = NotFound /\ users = before

(* a search over a non-empty collection that matched nothing *)
C3_Witness ==
    /\ req.op = "search" /\ StoreWorked /\ before # <<>>
    /\ resp.status = 404

-----------------------------------------------------------------------------
(* C4 - creation inconsistency: when the insert of a create request        *)
(* succeeded and the re-fetch by the assigned identifier yields no record, *)
(* the create handler answers 500 with detail exactly "Failed to create    *)
(* user".                                                                  *)
C4_CreationInconsistencyDetail ==
    (req.op = "create" /\ StoreWorked /\ req.removed)
    => resp = [status |-> 500, detail |-> "Failed to create user"]

C6_StoredRecordsValid ==
    \A i \in 1..Len(users) :
        LET d == users[i]
        IN  /\ Len(d.username) >= 3 /\ Len(d.username) <= 50
            /\ \A k \in 1..Len(d.username) :
                 d.username[k] \in Lower \cup Upper \cup Digit \cup {"_"}
            /\ EmailValid(d.email)
            /\ Len(d.full_name) <= 100
            /\ \A k \in 1..Len(d.roles) : d.roles[k] \in ALLOWED_ROLES
            /\ ~(d.full_name = <<>> /\ d.username = <<"a","n","o","n","y","m","o","u","s">>)

(* a record of username "anonymous" is stored, with its full_name *)
C6_Witness ==
    \E i \in 1..Len(users) :
        /\ users[i].username = <<"a","n","o","n","y","m","o","u","s">>
        /\ users[i].full_name # <<>>
        /\ users[i].roles # <<>>

-----------------------------------------------------------------------------
(* the values a request body leaves out *)
FullNameOf(b) == IF "full_name" \in DOMAIN b THEN b.full_name ELSE <<>>
RolesOf(b) == IF "roles" \in DOMAIN b THEN b.roles ELSE <<>>

(* a search that follows the successful create of the input "created",     *)
(* with no delete in between, and that the store answers                   *)
SearchAfterCreate == req.op = "search" /\ StoreWorked /\ created # NoBody

(* C7 as stated - create/search round trip: after a create succeeded for   *)
(* the input u, a search by u's username and a search by u's email (no     *)
(* delete in between) each answer 200 with a list holding a record whose   *)
(* username, email, full_name and roles are identical to u's, full_name    *)
(* being "" and roles [] when u left them out.                             *)
C7_RoundTripIdentical ==
    (SearchAfterCreate
        /\ (req.search = created.username \/ req.search = created.email))
    => /\ resp.status = 200
       /\ \E k \in 1..Len(resp.list) :
            resp.list[k] = [username |-> created.username, email |-> created.email,
                            full_name |-> FullNameOf(created),
                            roles |-> RolesOf(created)]

(* C7 as amended - the round trip holds for the validated form of u: a     *)
(* search by u's whitespace-trimmed username and a search by u's trimmed   *)
(* email with its domain in lower case each answer 200 with a list holding *)
(* a record whose username, full_name and roles are u's with surrounding   *)
(* whitespace trimmed and whose email is u's trimmed email with the domain *)
(* in lower case; full_name is "" and roles [] when u left them out.       *)
C7_RoundTripValidated ==
    LET name == Strip(created.username)
        mail == EmailNormalize(Strip(created.email))
    IN  (SearchAfterCreate /\ (req.search = name \/ req.search = mail))
        => /\ resp.status = 200
           /\ \E k \in 1..Len(resp.list) :
                resp.list[k] =
                    [username |-> name, email |-> mail,
                     full_name |-> Strip(FullNameOf(created)),
                     roles |-> [i \in 1..Len(RolesOf(created)) |->
                                   Strip(RolesOf(created)[i])]]

(* a search by the trimmed username of a padded input that left nothing out *)
C7_Witness ==
    /\ SearchAfterCreate /\ resp.status = 200
    /\ created.username # Strip(created.username)
    /\ created.email # EmailNormalize(Strip(created.email))
    /\ req.search = Strip(created.username)

(* C8 - data-store failure mapping: in each handler an exception raised by *)
(* a data-store call makes the request answer 500 with detail equal to the *)
(* exception's message, and the failed call is not retried: it is the last *)
(* call of the request and was made once.                                  *)
C8_StoreFailureIs500 ==
    (req.op \in {"create", "list", "search", "delete"} /\ req.fault.at # 0)
    => /\ resp = [status |-> 500, detail |-> req.fault.msg]
       /\ Len(calls) = req.fault.at
       /\ calls =
            SubSeq(CASE req.op = "create" ->
                          <<"get_collection", "insert_one", "get_collection", "find_one">>
                     [] req.op = "delete" ->
                          <<"get_collection", "find", "get_collection", "delete_one">>
                     [] OTHER -> <<"get_collection", "find">>,
                   1, req.fault.at)

(* delete_one raised although a record matched: nothing was deleted *)
C8_Witness ==
    /\ req.op = "delete" /\ req.fault.at = 4
    /\ calls[4] = "delete_one"
    /\ resp.status = 500 /\ users = before /\ users # <<>>

(* C9 - every element returned by list and by search carries the record's  *)
(* identifier, an "id" field, together with username, email, full_name and *)
(* roles.                                                                  *)
C9_ProjectionHasId ==
    (req.op \in {"list", "search"} /\ resp.status = 200)
    => \A k \in 1..Len(resp.list) :
          {"id", "username", "email", "full_name", "roles"} \subseteq DOMAIN resp.list[k]

(* C10 - list: when the store answers, GET /users/ answers 200 with one    *)
(* projected element per stored record, the empty list for the empty       *)
(* collection; no element has is_active or signup_ts; the collection is    *)
(* unchanged.                                                              *)
C10_ListProjectsEveryRecord ==
    (req.op = "list" /\ StoreWorked)
    => /\ resp.status = 200
       /\ Len(resp.list) = Len(before)
       /\ before = <<>> => resp.list = <<>>
       /\ \A k \in 1..Len(resp.list) :
            /\ resp.list[k] = View(before[k])
            /\ "is_active" \notin DOMAIN resp.list[k]
            /\ "signup_ts" \notin DOMAIN resp.list[k]
       /\ users = before

(* a listing of two stored records *)
C10_Witness ==
    /\ req.op = "list" /\ StoreWorked /\ resp.status = 200
    /\ Len(before) = 2 /\ Len(resp.list) = 2

-----------------------------------------------------------------------------
(* Several workers on one store: the data-store calls of their requests    *)
(* interleave, each call being one step; nothing is locked between the     *)
(* find and the delete_one of a delete, nor between the insert_one and the *)
(* find_one of a create.                                                   *)

ConcurrentBodies ==
    { [username |-> abc, email |-> a_b_c],
      [username |-> ANONYMOUS_USERNAME, email |-> x_y_z, full_name |-> Al] }

ConcurrentEmails == { a_b_c, x_y_z }

Finish(r, response) ==
    [inflight EXCEPT ![r].pc = "done", ![r].resp = response]

StoreOnly == UNCHANGED <<before, req, resp, calls, created>>

(* a worker takes the next request: POST /users/ or DELETE /users/{email} *)
Arrive(r) ==
    /\ inflight[r].pc = "idle"
    /\ \A q \in Requests : q < r => inflight[q].pc # "idle"
    /\ \/ \E body \in ConcurrentBodies :
            /\ UserErrors(body) = {}
            /\ inflight' = [inflight EXCEPT ![r].op = "create", ![r].body = body,
                                            ![r].pc = "insert_one"]
       \/ \E email \in ConcurrentEmails :
            inflight' = [inflight EXCEPT ![r].op = "delete", ![r].email = email,
                                         ![r].pc = "find"]
    /\ UNCHANGED <<users, nextId>>
    /\ StoreOnly

(* create_user: result = insert_one(user_dict) *)
CreateInsert(r) ==
    /\ inflight[r].pc = "insert_one"
    /\ nextId <= MaxInserts
    /\ \E fault \in Faults(1) :
         IF fault.at # 0
         THEN /\ inflight' = Finish(r, create_user_except(Exception(fault.msg)))
              /\ UNCHANGED <<users, nextId>>
         ELSE /\ users' = Append(users, Doc(nextId, model_dump(inflight[r].body)))
              /\ nextId' = nextId + 1
              /\ inflight' = [inflight EXCEPT ![r].id = nextId, ![r].pc = "find_one"]
    /\ StoreOnly

(* create_user: created_user = find_one({"_id": result.inserted_id}) and   *)
(* the rest of the handler                                                 *)
CreateFind(r) ==
    /\ inflight[r].pc = "find_one"
    /\ \E fault \in Faults(1) :
         LET got == find_one(users, inflight[r].id)
         IN  inflight' =
               Finish(r, IF fault.at # 0
                         THEN create_user_except(Exception(fault.msg))
                         ELSE IF got = <<>>
                         THEN create_user_except(
                                  HTTPException(500, "Failed to create user"))
                         ELSE IF UserErrors(Head(got)) # {}
                         THEN create_user_except(ValidationError(UserErrors(Head(got))))
                         ELSE ReturnUser(Fields(Head(got))))
    /\ UNCHANGED <<users, nextId>>
    /\ StoreOnly

(* delete_user: users = find({"email": email}), user_list and its test *)
DeleteFind(r) ==
    /\ inflight[r].pc = "find"
    /\ \E fault \in Faults(1) :
         LET user_list == find_by_email(users, inflight[r].email)
         IN  inflight' =
               IF fault.at # 0
               THEN Finish(r, delete_user_except(Exception(fault.msg)))
               ELSE IF user_list = <<>>
               THEN Finish(r, delete_user_except(HTTPException(404, "No user found")))
               ELSE [inflight EXCEPT ![r].found = Len(user_list),
                                     ![r].pc = "delete_one"]
    /\ UNCHANGED <<users, nextId>>
    /\ StoreOnly

(* delete_user: delete_one({"email": email}), whose result the handler     *)
(* does not look at, and the return of the confirmation                    *)
DeleteOne(r) ==
    /\ inflight[r].pc = "delete_one"
    /\ \E fault \in Faults(1) :
         \E victim \in Matching(users, inflight[r].email) \cup {0} :
           /\ (victim = 0) = (fault.at # 0 \/ Matching(users, inflight[r].email) = {})
           /\ IF fault.at # 0
              THEN /\ inflight' = Finish(r, delete_user_except(Exception(fault.msg)))
                   /\ UNCHANGED users
              ELSE /\ users' = delete_one(users, inflight[r].email, victim)
                   /\ inflight' =
                        [inflight EXCEPT
                           ![r].removed = Len(users) - Len(users'),
                           ![r].pc = "done",
                           ![r].resp = ReturnMessage(DeletedMessage(inflight[r].email))]
    /\ UNCHANGED nextId
    /\ StoreOnly

NextConcurrent ==
    \E r \in Requests :
        Arrive(r) \/ CreateInsert(r) \/ CreateFind(r) \/ DeleteFind(r) \/ DeleteOne(r)

SpecConcurrent == Init /\ [][NextConcurrent]_vars

(* C11 - delete under interleaving: when the data-store calls of           *)
(* concurrent requests interleave without locking, every delete request    *)
(* answered 200 with the confirmation message has itself removed exactly   *)
(* one record, so the confirmed deletes are as many as the records that    *)
(* delete requests removed.                                                *)
C11_ConfirmedDeleteRemovedOne ==
    LET confirmed == { r \in Requests :
                         /\ inflight[r].op = "delete"
                         /\ inflight[r].resp.status = 200 }
    IN  /\ \A r \in confirmed : inflight[r].removed = 1
        /\ Cardinality(confirmed) + Len(users) = nextId - 1

====
